---- MODULE Spec2Model ----
(***************************************************************************)
(* Model of the bi-tools-supply-chain scraper and processing stage:        *)
(*   scraping/parsers.py      parse_price, parse_rating,                   *)
(*                            parse_reviews_count, parse_product_card      *)
(*   scraping/run_scraper.py  scrape_listing, save_to_csv, main            *)
(*   pipelines/transform.py   coerce_types, main                           *)
(*   quality/validations.py   validate_products                            *)
(*                                                                         *)
(* A text is a sequence of tokens.  A token is one significant character   *)
(* (a digit, ".", ",", "-", "+", " ", "nbsp") or a run of other            *)
(* characters written as one string ("stars", "reviews", "$", ...).  The   *)
(* regular expressions of parsers.py only distinguish the significant      *)
(* characters, so a run of other characters behaves as any one of them.    *)
(*                                                                         *)
(* A number is [n |-> numerator, e |-> number of fraction digits],         *)
(* normalised so that n is not a multiple of 10 unless e = 0; an integer   *)
(* is a number with e = 0.                                                 *)
(***************************************************************************)
EXTENDS Integers, Sequences, FiniteSets, TLC

\* ------------------------------------------------------------------ values

\* Python's None, where a number is optional.  Numbers are records, and so
\* is None, so that the two compare.
None == [none |-> TRUE]

\* What an operator yields when the code it models raises.
Raise == [raise |-> TRUE]

\* No match of a regular expression (a match is never empty).
NoMatch == <<>>

Digits == {"0", "1", "2", "3", "4", "5", "6", "7", "8", "9"}

DigitVal(c) ==
    CASE c = "0" -> 0 [] c = "1" -> 1 [] c = "2" -> 2 [] c = "3" -> 3
      [] c = "4" -> 4 [] c = "5" -> 5 [] c = "6" -> 6 [] c = "7" -> 7
      [] c = "8" -> 8 [] c = "9" -> 9

\* str.isspace(): the blank and the non-breaking space are both whitespace.
IsSpace(c) == c \in {" ", "nbsp"}

RECURSIVE Pow10(_)
Pow10(k) == IF k = 0 THEN 1 ELSE 10 * Pow10(k - 1)

RECURSIVE Normalise(_, _)
Normalise(n, e) ==
    IF e > 0 /\ n % 10 = 0 THEN Normalise(n \div 10, e - 1)
    ELSE [n |-> n, e |-> e]


\* v <= 0, v < 0 and v > 5 on a decimal number.
DecLeqZero(v) == v.n <= 0
DecLtZero(v) == v.n < 0
DecGtFive(v) == v.n > 5 * Pow10(v.e)

\* ------------------------------------------------------------------- text

RECURSIVE LStrip(_)
LStrip(t) ==
    IF t # <<>> /\ IsSpace(Head(t)) THEN LStrip(Tail(t)) ELSE t

RECURSIVE RStrip(_)
RStrip(t) ==
    IF t # <<>> /\ IsSpace(t[Len(t)]) THEN RStrip(SubSeq(t, 1, Len(t) - 1))
    ELSE t

\* str.strip()
Strip(t) == RStrip(LStrip(t))

\* str.replace(c, "")
RECURSIVE Remove(_, _)
Remove(t, c) ==
    IF t = <<>> THEN <<>>
    ELSE IF Head(t) = c THEN Remove(Tail(t), c)
    ELSE <<Head(t)>> \o Remove(Tail(t), c)

\* str.replace(" ", " ")
ReplaceNbsp(t) == [i \in 1..Len(t) |-> IF t[i] = "nbsp" THEN " " ELSE t[i]]

\* The end (exclusive) of the longest run of tokens of `set` that starts at i.
RECURSIVE RunEnd(_, _, _)
RunEnd(t, i, set) ==
    IF i <= Len(t) /\ t[i] \in set THEN RunEnd(t, i + 1, set) ELSE i

\* The value of a run of digits.
RECURSIVE DigitsVal(_)
DigitsVal(t) ==
    IF t = <<>> THEN 0
    ELSE 10 * DigitsVal(SubSeq(t, 1, Len(t) - 1)) + DigitVal(t[Len(t)])

\* ---------------------------------------------------------------- parsers

\* _money_re = ([-+]?\d[\d,]*\.?\d*), as re.search: the leftmost position
\* where an optional sign is followed by a digit, then the greedy match.
\* Yields the matched tokens, or NoMatch.
MoneyStarts(t) ==
    {i \in 1..Len(t) :
        \/ t[i] \in Digits
        \/ t[i] \in {"-", "+"} /\ i < Len(t) /\ t[i + 1] \in Digits}

MoneySearch(t) ==
    IF MoneyStarts(t) = {} THEN NoMatch
    ELSE LET i == CHOOSE x \in MoneyStarts(t) : \A y \in MoneyStarts(t) : x <= y
             d == IF t[i] \in Digits THEN i ELSE i + 1
             a == RunEnd(t, d + 1, Digits \cup {","})
             b == IF a <= Len(t) /\ t[a] = "." THEN a + 1 ELSE a
             c == RunEnd(t, b, Digits)
         IN  SubSeq(t, i, c - 1)

\* _int_re = (\d+), as re.search: the leftmost longest run of digits.
IntStarts(t) == {i \in 1..Len(t) : t[i] \in Digits}

IntSearch(t) ==
    IF IntStarts(t) = {} THEN NoMatch
    ELSE LET i == CHOOSE x \in IntStarts(t) : \A y \in IntStarts(t) : x <= y
         IN  SubSeq(t, i, RunEnd(t, i, Digits) - 1)

\* decimal.Decimal(raw) for a raw text matched by _money_re: a sign, digits,
\* an optional point and digits.  A "," makes it raise InvalidOperation
\* (yielded as None, which is what both callers turn it into).
ToDecimal(raw) ==
    IF \E i \in 1..Len(raw) : raw[i] = "," THEN None
    ELSE LET neg == raw[1] = "-"
             body == IF raw[1] \in {"-", "+"} THEN Tail(raw) ELSE raw
             p == RunEnd(body, 1, Digits)
             int == SubSeq(body, 1, p - 1)
             frac == IF p <= Len(body) THEN SubSeq(body, p + 1, Len(body))
                     ELSE <<>>
             mag == DigitsVal(int) * Pow10(Len(frac)) + DigitsVal(frac)
         IN  Normalise(IF neg THEN 0 - mag ELSE mag, Len(frac))

parse_price(text) ==
    LET t == Strip(text)
    IN  IF t = <<>> THEN None
        ELSE LET m == MoneySearch(ReplaceNbsp(t))
             IN  IF m = NoMatch THEN None ELSE ToDecimal(Remove(m, ","))

\* round(val, 1) of a float val in [0, 5] that stands for the decimal n/10^e.
\* A value with at most one fraction digit is unchanged; otherwise it goes
\* to the nearer tenth.  An exact decimal tie (x.y5) is no tie for the binary
\* float: RoundsUpAtTie lists the tenths q (0..49) where float(q/10 + 0.05)
\* lies above (or, being exact, rounds half-even up from) the tie.
RoundsUpAtTie ==
    {0, 4, 5, 6, 7, 10, 13, 15, 17, 18, 23, 24, 27, 28, 29, 33, 34, 37, 38,
     39, 41, 44, 46, 47, 49}

Round1(v) ==
    IF v.e <= 1 THEN v
    ELSE LET unit == Pow10(v.e - 1)
             q == v.n \div unit
             r == v.n % unit
             up == \/ 2 * r > unit
                   \/ 2 * r = unit /\ q \in RoundsUpAtTie
         IN  Normalise(IF up THEN q + 1 ELSE q, 1)

parse_rating(text) ==
    LET t == Strip(text)
    IN  IF t = <<>> THEN None
        ELSE LET m == MoneySearch(t)
             IN  IF m = NoMatch THEN None
                 ELSE LET val == ToDecimal(m)
                      IN  IF val = None THEN None
                          ELSE IF DecLtZero(val) THEN Round1(Normalise(0, 0))
                          ELSE IF DecGtFive(val) THEN Round1(Normalise(5, 0))
                          ELSE Round1(val)

parse_reviews_count(text) ==
    LET t == Strip(text)
    IN  IF t = <<>> THEN None
        ELSE LET m == IntSearch(Remove(t, ","))
             IN  IF m = NoMatch THEN None ELSE Normalise(DigitsVal(m), 0)

\* ------------------------------------------------------------------ cards

\* A card of the listing is what the browser answers about it:
\*   name, sku, rating, reviews   the first descendant matching the field's
\*                                CSS selector, or NoEl
\*   sale, list                   the card's price attributes ("" when the
\*                                attribute is absent: the code reads x or "")
\*   bv                           the fallback element, [label |-> its
\*                                aria-label], or NoEl
\*   links                        the href of each a[href] descendant, in
\*                                document order
\*   fail                         the browser reads that raise on this card
\* An element is [content |-> its textContent, text |-> its rendered text].
NoEl == [absent |-> TRUE]

Reads ==
    {"find_name", "script_name", "text_name", "find_sku", "text_sku",
     "attr_sale", "attr_list", "find_rating", "text_rating", "find_reviews",
     "text_reviews", "find_bv", "attr_label", "find_links", "attr_href"}

\* The outcome of a read that may raise.
Ok(v) == [ok |-> TRUE, v |-> v]
Failed == [ok |-> FALSE]

\* The selectors main() configures: "@" reads an attribute of the card, "css"
\* the text of a descendant, "" nothing.
Selectors ==
    [product_name |-> "css", product_sku |-> "css",
     product_sale_price |-> "@", product_list_price |-> "@",
     product_rating |-> "css", product_reviews_count |-> "css",
     bv_aria_source |-> "css"]

\* The card's field a selector addresses, and the names of its reads.
FieldOf ==
    [product_name |-> "name", product_sku |-> "sku",
     product_sale_price |-> "sale", product_list_price |-> "list",
     product_rating |-> "rating", product_reviews_count |-> "reviews",
     bv_aria_source |-> "bv"]

FindRead(f) ==
    CASE f = "name" -> "find_name" [] f = "sku" -> "find_sku"
      [] f = "rating" -> "find_rating" [] f = "reviews" -> "find_reviews"
      [] f = "bv" -> "find_bv"

TextRead(f) ==
    CASE f = "name" -> "text_name" [] f = "sku" -> "text_sku"
      [] f = "rating" -> "text_rating" [] f = "reviews" -> "text_reviews"

AttrRead(f) == CASE f = "sale" -> "attr_sale" [] f = "list" -> "attr_list"

\* _find_optional: the element, or None when there is none or the lookup
\* raises.
find_optional(card, sel) ==
    IF FindRead(FieldOf[sel]) \in card.fail THEN NoEl ELSE card[FieldOf[sel]]

\* _safe_text: el.text.strip() if el else "".  The read of el.text is not
\* guarded.
safe_text(card, sel, el) ==
    IF el = NoEl THEN Ok(<<>>)
    ELSE IF TextRead(FieldOf[sel]) \in card.fail THEN Failed
    ELSE Ok(Strip(el.text))

extract_value(card, sel) ==
    IF Selectors[sel] = "" THEN Ok(<<>>)
    ELSE IF Selectors[sel] = "@"
    THEN IF AttrRead(FieldOf[sel]) \in card.fail THEN Failed
         ELSE Ok(Strip(card[FieldOf[sel]]))
    ELSE safe_text(card, sel, find_optional(card, sel))

\* get_text_content: the script's textContent, stripped; when the script
\* raises, el.text.strip(), whose read is not guarded.
get_text_content(card, el) ==
    IF "script_name" \notin card.fail THEN Ok(Strip(el.content))
    ELSE IF "text_name" \in card.fail THEN Failed
    ELSE Ok(Strip(el.text))

\* "/product/" in href
IsProductHref(href) == \E i \in 1..Len(href) : href[i] = "/product/"

\* The loop over card.find_elements("a[href]") inside try/except: the first
\* href holding "/product/"; "" when there is none or a read raises (the
\* reads of the hrefs raise or succeed together).
ProductUrl(card) ==
    IF "find_links" \in card.fail THEN <<>>
    ELSE IF card.links = <<>> THEN <<>>
    ELSE IF "attr_href" \in card.fail THEN <<>>
    ELSE LET hits == {i \in 1..Len(card.links) :
                        IsProductHref(Strip(card.links[i]))}
         IN  IF hits = {} THEN <<>>
             ELSE Strip(card.links[CHOOSE i \in hits : \A j \in hits : i <= j])

\* The fallback of parse_product_card (lines 238-243): [rating, reviews_count]
\* after it, or Failed when the read of aria-label raises.
Fallback(card, rating, reviews_count) ==
    IF rating # None /\ reviews_count # None
    THEN Ok([rating |-> rating, reviews_count |-> reviews_count])
    ELSE LET a == find_optional(card, "bv_aria_source")
         IN  IF a = NoEl
             THEN Ok([rating |-> rating, reviews_count |-> reviews_count])
             ELSE IF "attr_label" \in card.fail THEN Failed
             ELSE LET aria == Strip(a.label)
                  IN  Ok([rating |-> IF rating # None THEN rating
                                     ELSE parse_rating(aria),
                          reviews_count |->
                              IF reviews_count # None THEN reviews_count
                              ELSE parse_reviews_count(aria)])

Unknown == <<"UNKNOWN">>

\* Lines 228-229: the sale price falls back to the list price
\* (SalePriceNoFallback: the variant without lines 228-229).
SalePriceNoFallback(sale, price_list) == sale
SalePrice(sale, price_list) == IF sale = None THEN price_list ELSE sale

\* parse_product_card: the ProductRecord, or Raise when a read that is not
\* guarded raises.
parse_product_card(card) ==
    LET name_el == find_optional(card, "product_name")
        name == IF name_el # NoEl THEN get_text_content(card, name_el)
                ELSE Ok(<<>>)
        sku == extract_value(card, "product_sku")
        sale_price_text == extract_value(card, "product_sale_price")
        list_price_text == extract_value(card, "product_list_price")
        r_text == extract_value(card, "product_rating")
        c_text == extract_value(card, "product_reviews_count")
    IN  IF ~(name.ok /\ sku.ok /\ sale_price_text.ok /\ list_price_text.ok
              /\ r_text.ok /\ c_text.ok)
        THEN Raise
        ELSE LET price_list == IF list_price_text.v # <<>>
                               THEN parse_price(list_price_text.v) ELSE None
                 sale == IF sale_price_text.v # <<>>
                         THEN parse_price(sale_price_text.v) ELSE None
                 price_sale == SalePrice(sale, price_list)
                 fb == Fallback(card, parse_rating(r_text.v),
                                parse_reviews_count(c_text.v))
             IN  IF ~fb.ok THEN Raise
                 ELSE [sku |-> IF sku.v = <<>> THEN Unknown ELSE sku.v,
                       name |-> name.v,
                       price_list |-> price_list,
                       price_sale |-> price_sale,
                       rating |-> fb.v.rating,
                       reviews_count |-> fb.v.reviews_count,
                       product_url |-> ProductUrl(card)]

\* ------------------------------------------------------------ the inputs

El(t) == [content |-> t, text |-> t]

ProductHref(slug) == <<"https://shop", "/product/", slug>>
OtherHref == <<"https://shop", "/category/", "sale">>

\* A card with every field, the prices as attributes.
CardFull ==
    [name |-> El(<<" ", "Cordless", " ", "Saw", " ">>),
     sku |-> El(<<"SKU", "7">>),
     sale |-> <<"$", "8", ".", "9", "9">>,
     list |-> <<"$", "1", "0", ".", "0", "0">>,
     rating |-> El(<<"4", ".", "5">>),
     reviews |-> El(<<"(", "1", "2", ")">>),
     bv |-> NoEl,
     links |-> <<OtherHref, ProductHref("saw")>>,
     fail |-> {}]

\* A card without a name element and without primary rating and review
\* count, whose fallback label states both; no sale price.
CardNoName ==
    [name |-> NoEl,
     sku |-> El(<<"ABC", "1", "2", "3">>),
     sale |-> <<>>,
     list |-> <<"$", "1", "0", ".", "0", "0">>,
     rating |-> NoEl,
     reviews |-> NoEl,
     bv |-> [label |-> <<"4", ".", "6", " ", "out", " ", "of", " ", "5", " ",
                         "stars", ",", " ", "8", "1", "2", " ", "reviews">>],
     links |-> <<ProductHref("abc")>>,
     fail |-> {}]

\* A card with nothing to read.
CardHusk ==
    [name |-> NoEl, sku |-> NoEl, sale |-> <<>>, list |-> <<>>,
     rating |-> NoEl, reviews |-> NoEl, bv |-> NoEl, links |-> <<>>,
     fail |-> {}]

\* A card with a name whose rendered text hides a nested part, no product
\* link, a negative list price and an out-of-range rating.
CardNameOnly ==
    [name |-> [content |-> <<"Drill", " ", "Kit">>, text |-> <<"Drill">>],
     sku |-> El(<<" ">>),
     sale |-> <<>>,
     list |-> <<"-", "5">>,
     rating |-> El(<<"7", ".", "2", " ", "out", " ", "of", " ", "5">>),
     reviews |-> NoEl,
     bv |-> [label |-> <<"no", " ", "reviews">>],
     links |-> <<OtherHref>>,
     fail |-> {}]

\* A card whose primary rating is present and whose review count comes from
\* a label that states the count alone.
CardCountLabel ==
    [name |-> El(<<"Vise">>),
     sku |-> El(<<"V", "9">>),
     sale |-> <<"CAD", "nbsp", "2", "4", ".", "5", "0">>,
     list |-> <<"$", "1", ",", "2", "9", "9", ".", "9", "9">>,
     rating |-> El(<<"4", ".", "6", "5">>),
     reviews |-> NoEl,
     bv |-> [label |-> <<"(", "1", ",", "0", "2", "4", " ", "reviews", ")">>],
     links |-> <<ProductHref("vise"), ProductHref("vise-2")>>,
     fail |-> {}]

\* A card whose sale-price attribute holds a text without a number.
CardSaleWords ==
    [name |-> El(<<"Anvil">>),
     sku |-> El(<<"AN", "4">>),
     sale |-> <<" ", "call", " ", "us", " ">>,
     list |-> <<"$", "3", "5">>,
     rating |-> NoEl,
     reviews |-> NoEl,
     bv |-> NoEl,
     links |-> <<ProductHref("anvil")>>,
     fail |-> {}]

\* CardFull gone stale: the read of its sale-price attribute raises.
CardStale == [CardFull EXCEPT !.fail = {"attr_sale"}]

BaseCards ==
    {CardFull, CardNoName, CardHusk, CardNameOnly, CardCountLabel,
     CardSaleWords}

\* The largest number of reads that raise on one card.
MaxFaults == 1

FaultSets == {f \in SUBSET Reads : Cardinality(f) <= MaxFaults}

\* The card lists a page of the site may show.
PageCards ==
    {<<CardFull, CardStale, CardNameOnly>>,
     <<CardHusk, CardNoName>>}

\* A page of the site: whether a card appears within the wait ("ok") or not
\* ("timeout"), its cards, and its next-page control: "absent", "ok" (the
\* scroll and the click succeed) or "fail" (one of them raises).
Pages ==
    [status : {"ok"}, cards : PageCards, next : {"absent", "ok", "fail"}]
    \cup {[status |-> "timeout", cards |-> <<>>, next |-> "absent"]}

\* The longest site and the largest page cap.
MaxSitePages == 3
MaxPagesCap == 4

Sites == UNION {[1..n -> Pages] : n \in 1..MaxSitePages}

\* The document the browser shows after doc - 1 successful clicks; past the
\* site's last page no card ever appears.
Document(st, d) ==
    IF d \in 1..Len(st) THEN st[d]
    ELSE [status |-> "timeout", cards |-> <<>>, next |-> "absent"]

\* ------------------------------------------------------------- the tables

\* A cell of a CSV file or of a data frame is a text [s |-> t], a number
\* [n |-> .., e |-> ..] or the missing value NA.  A table is
\* [cols |-> its columns, rows |-> its rows]; a row holds its index label idx
\* and a cell for each field.
NA == [na |-> TRUE]
Str(t) == [s |-> t]
IsStr(c) == DOMAIN c = {"s"}

TextCols == {"sku", "name", "product_url"}
NumCols == {"price_list", "price_sale", "rating", "reviews_count"}
RawCols == TextCols \cup NumCols

\* csv.DictWriter on asdict(record): None is written as the empty field, a
\* number as its decimal text (which reads back as the same number), a text
\* as itself.
CsvNumber(v) == IF v = None THEN Str(<<>>) ELSE v

CsvRow(r) ==
    [sku |-> Str(r.sku), name |-> Str(r.name),
     price_list |-> CsvNumber(r.price_list),
     price_sale |-> CsvNumber(r.price_sale),
     rating |-> CsvNumber(r.rating),
     reviews_count |-> CsvNumber(r.reviews_count),
     product_url |-> Str(r.product_url)]

\* save_to_csv
save_to_csv(records) == [i \in 1..Len(records) |-> CsvRow(records[i])]

\* Line 7 of transform.py: the pandas the stage imports is whatever is
\* installed; its major version decides two things below.
PandasVersions == {1, 2, 3}

\* read_csv's default na_values hold "None" from pandas 2.0 on.
NoneIsNa(version) == version >= 2

\* astype(str) keeps a missing value missing in pandas 3 (str dtype) and
\* makes the text "nan" of it before (object dtype).
KeepsNa(version) == version >= 3

\* The texts pandas.read_csv reads as missing in every version: its default
\* na_values, as token sequences ("" is the empty sequence).
NaTexts ==
    {<<>>, <<"#N/A">>, <<"#N/A", " ", "N/A">>, <<"#NA">>,
     <<"-", "1", ".", "#IND">>, <<"-", "1", ".", "#QNAN">>,
     <<"-", "NaN">>, <<"-", "nan">>, <<"1", ".", "#IND">>,
     <<"1", ".", "#QNAN">>, <<"<NA>">>, <<"N/A">>, <<"NA">>, <<"NULL">>,
     <<"NaN">>, <<"n/a">>, <<"nan">>, <<"null">>}

ReadField(c, version) ==
    IF IsStr(c) /\ (\/ c.s \in NaTexts
                    \/ c.s = <<"None">> /\ NoneIsNa(version))
    THEN NA ELSE c

\* pd.read_csv(raw_path), then df["snapshot_date"] = snapshot_date.  The
\* texts of the inputs are no numerals, so a text column stays a text column.
read_csv(file, version) ==
    [cols |-> RawCols \cup {"snapshot_date"},
     rows |-> [i \in 1..Len(file) |->
                 [idx |-> i - 1,
                  snapshot_date |-> Str(<<"today">>),
                  sku |-> ReadField(file[i].sku, version),
                  name |-> ReadField(file[i].name, version),
                  price_list |-> ReadField(file[i].price_list, version),
                  price_sale |-> ReadField(file[i].price_sale, version),
                  rating |-> ReadField(file[i].rating, version),
                  reviews_count |-> ReadField(file[i].reviews_count, version),
                  product_url |-> ReadField(file[i].product_url, version)]]]

\* Series.astype(str).str.strip() on one cell.
AsStrStrip(c, version) ==
    IF c = NA THEN (IF KeepsNa(version) THEN NA ELSE Str(<<"nan">>))
    ELSE IF IsStr(c) THEN Str(Strip(c.s))
    ELSE c

\* pd.to_numeric(errors="coerce") on one cell.
ToNumeric(c) == IF c = NA \/ IsStr(c) THEN NA ELSE c

\* Series.round(1) on one number: numpy's rint(x * 10) / 10.  For the float
\* of a decimal x.y5 the product x * 10 is the exact tie, which rint sends
\* to the even neighbour; every other value goes to the nearer tenth.
RoundSeries1(v) ==
    IF v.e <= 1 THEN v
    ELSE LET neg == v.n < 0
             mag == IF neg THEN 0 - v.n ELSE v.n
             unit == Pow10(v.e - 1)
             q == mag \div unit
             r == mag % unit
             up == \/ 2 * r > unit
                   \/ 2 * r = unit /\ q % 2 = 1
             t == IF up THEN q + 1 ELSE q
         IN  Normalise(IF neg THEN 0 - t ELSE t, 1)

\* Series.astype("Int64") on a float column refuses a value that is no
\* integer (TypeError: cannot safely cast non-equivalent float64 to int64).
CastFails(c) == c # NA /\ c.e > 0

\* coerce_types: the frame, or Raise when the cast of line 31 fails.
coerce_types(d, version) ==
    IF \E i \in 1..Len(d.rows) : CastFails(ToNumeric(d.rows[i].reviews_count))
    THEN Raise
    ELSE
    [cols |-> d.cols,
     rows |-> [i \in 1..Len(d.rows) |->
         LET r == d.rows[i]
         IN  [idx |-> r.idx,
              snapshot_date |-> r.snapshot_date,
              sku |-> AsStrStrip(r.sku, version),
              name |-> AsStrStrip(r.name, version),
              product_url |-> AsStrStrip(r.product_url, version),
              price_list |-> ToNumeric(r.price_list),
              price_sale |-> ToNumeric(r.price_sale),
              rating |-> IF ToNumeric(r.rating) = NA THEN NA
                         ELSE RoundSeries1(ToNumeric(r.rating)),
              reviews_count |-> ToNumeric(r.reviews_count)]]]

\* Lines 35 and 39 of validations.py: isna() | (astype(str).str.strip() == "")
TextInvalid(c) == c = NA \/ (IsStr(c) /\ Strip(c.s) = <<>>)

\* Lines 44, 49, 54 and 59: notna() & (out of range)
NonPositive(c) == c # NA /\ DecLeqZero(c)
OutOfRating(c) == c # NA /\ (DecLtZero(c) \/ DecGtFive(c))
Negative(c) == c # NA /\ DecLtZero(c)

\* The mask of each rule on one row; a rule on a column the frame does not
\* have is not applied.
RuleMask(d, r, reason) ==
    CASE reason = "invalid_name" -> TextInvalid(r.name)
      [] reason = "invalid_sku" -> TextInvalid(r.sku)
      [] reason = "invalid_price_list" ->
            "price_list" \in d.cols /\ NonPositive(r.price_list)
      [] reason = "invalid_price_sale" ->
            "price_sale" \in d.cols /\ NonPositive(r.price_sale)
      [] reason = "invalid_rating" ->
            "rating" \in d.cols /\ OutOfRating(r.rating)
      [] reason = "invalid_reviews_count" ->
            "reviews_count" \in d.cols /\ Negative(r.reviews_count)

Reasons ==
    {"invalid_name", "invalid_sku", "invalid_price_list",
     "invalid_price_sale", "invalid_rating", "invalid_reviews_count"}

\* add_reason: int(mask.sum()), recorded when positive.
MaskSum(d, reason) ==
    Cardinality({i \in 1..Len(d.rows) : RuleMask(d, d.rows[i], reason)})

\* Lines 62-70: invalid_mask on one row (InvalidMaskNoRating: the variant
\* that leaves rating_invalid out of the mask).
InvalidMaskNoRating(d, r) ==
    \E reason \in Reasons \ {"invalid_rating"} : RuleMask(d, r, reason)
InvalidMask(d, r) ==
    \/ RuleMask(d, r, "invalid_name") \/ RuleMask(d, r, "invalid_sku")
    \/ RuleMask(d, r, "invalid_price_sale")
    \/ RuleMask(d, r, "invalid_price_list")
    \/ RuleMask(d, r, "invalid_rating")
    \/ RuleMask(d, r, "invalid_reviews_count")

\* validate_products: [valid_df, report]
validate_products(d) ==
    LET valid == SelectSeq(d.rows, LAMBDA r : ~InvalidMask(d, r))
        counted == {reason \in Reasons : MaskSum(d, reason) > 0}
    IN  [valid_df |-> [cols |-> d.cols, rows |-> valid],
         report |->
            [total_rows |-> Len(d.rows),
             valid_rows |-> Len(valid),
             invalid_rows |->
                Cardinality({i \in 1..Len(d.rows) : InvalidMask(d, d.rows[i])}),
             invalid_reasons |-> [reason \in counted |-> MaskSum(d, reason)]]]

\* dict.get(reason, 0) on the report's invalid_reasons.
ReasonCount(rep, reason) ==
    IF reason \in DOMAIN rep.invalid_reasons THEN rep.invalid_reasons[reason]
    ELSE 0

\* Lines 76-77 of transform.py: the fact table's columns of valid_df.
FactCols ==
    {"snapshot_date", "sku", "name", "price_list", "price_sale", "rating",
     "reviews_count", "product_url"}

fact_table(v) == [cols |-> FactCols \cap v.cols, rows |-> v.rows]

\* ------------------------------------------------------------------ state

VARIABLES
    site,       \* the pages the browser shows, in click order
    max_pages,  \* scrape_listing's max_pages
    pc,         \* where the run is
    session,    \* the browser session: "none", "open" or "quit"
    driver,     \* scrape_listing's local driver: "unbound" or "bound"
    page,       \* the loop variable of scrape_listing
    doc,        \* the number of the document the browser shows (0: none)
    cards,      \* the cards found on the current page
    ci,         \* the position in cards of the next card to extract
    results,    \* scrape_listing's results
    exc,        \* an exception is propagating out of scrape_listing
    ret,        \* the list scrape_listing returned
    log,        \* the browser operations performed, in order
    raw,        \* the rows of the raw CSV file
    df,         \* the data frame of the processing stage
    valid_df,   \* validate_products' valid_df
    report,     \* validate_products' ValidationReport
    fact,       \* the rows of the fact table
    pandas,     \* the major version of the pandas in use (0: not in use yet)
    record      \* the result of one parse_product_card call

crawl_vars ==
    <<site, max_pages, pc, session, driver, page, doc, cards, ci, results,
      exc, ret, log>>
table_vars == <<raw, df, valid_df, report, fact, pandas>>
vars == <<crawl_vars, table_vars, record>>

\* ------------------------------------------------------------ the crawl

Op(name) == [op |-> name, doc |-> doc]

\* Line 61: the acceptance filter (AcceptSkuToo: the variant that lets the
\* SKU alone suffice).
AcceptSkuToo(r) == r.name # <<>> \/ r.product_url # <<>> \/ r.sku # <<>>
Accept(r) == r.name # <<>> \/ r.product_url # <<>>

\* Lines 57-64: the body of the loop over the cards, on results
\* (AfterCardAbortsPage: the variant in which a raising card costs the
\* records gathered so far).
AfterCardAbortsPage(rs, card) ==
    LET r == parse_product_card(card)
    IN  IF r = Raise THEN <<>> ELSE IF Accept(r) THEN Append(rs, r) ELSE rs
AfterCard(rs, card) ==
    LET r == parse_product_card(card)
    IN  IF r = Raise THEN rs ELSE IF Accept(r) THEN Append(rs, r) ELSE rs

\* Line 48: whether range(1, max_pages + 1) has a value after p
\* (HasNextPageOffByOne: the variant range(1, max_pages + 2)).
HasNextPageOffByOne(p, cap) == p <= cap
HasNextPage(p, cap) == p < cap

\* Line 52: whether wait.until raises TimeoutException (WaitRaisesNever: the
\* variant that swallows the timeout).
WaitRaisesNever(d) == FALSE
WaitRaises(d) == d.status = "timeout"

\* Lines 82-89: what a failed scroll or click does: break, no exception
\* (OnClickFailureRaise: the variant that lets the exception propagate).
OnClickFailureRaise == [pc |-> "finally", exc |-> TRUE]
OnClickFailure == [pc |-> "finally", exc |-> FALSE]

\* Lines 93-97: whether the exit of the try block, with or without an
\* exception, runs driver.quit() (ReleasesOnReturnOnly: the variant with
\* the quit after the loop instead of in a finally clause).
ReleasesOnReturnOnly(e) == ~e
Releases(e) == TRUE

\* selenium_driver.py, lines 64-69: what build_chrome_driver can do.
\* webdriver.Chrome raises and no browser runs; or the browser starts and
\* set_page_load_timeout or implicitly_wait raises, which leaves it running
\* with nobody holding the driver; or the driver is returned.
BuildOutcomes ==
    {[session |-> "none", returned |-> FALSE],
     [session |-> "open", returned |-> FALSE],
     [session |-> "open", returned |-> TRUE]}

\* Line 40: the call of build_chrome_driver, outside the try block: what it
\* raises leaves scrape_listing at once, with no finally clause to run.
BuildDriver ==
    /\ pc = "build"
    /\ \E o \in BuildOutcomes :
         /\ session' = o.session
         /\ driver' = IF o.returned THEN "bound" ELSE driver
         /\ pc' = IF o.returned THEN "get" ELSE "raised"
    /\ UNCHANGED <<site, max_pages, page, doc, cards, ci, results, exc, ret,
                   log, table_vars, record>>

\* Lines 46-48: driver.get, then the first value of the loop variable.
OpenStart ==
    /\ pc = "get"
    /\ log' = Append(log, Op("get"))
    /\ \E ok \in BOOLEAN :
         IF ~ok THEN exc' = TRUE /\ pc' = "finally" /\ UNCHANGED <<doc, page>>
         ELSE /\ doc' = 1
              /\ exc' = exc
              /\ IF HasNextPage(0, max_pages)
                 THEN page' = 1 /\ pc' = "await"
                 ELSE page' = page /\ pc' = "finally"
    /\ UNCHANGED <<site, max_pages, session, driver, cards, ci, results, ret,
                   table_vars, record>>

\* Lines 52-53: wait for a card, then enumerate the cards.
AwaitCards ==
    /\ pc = "await"
    /\ IF WaitRaises(Document(site, doc))
       THEN /\ log' = Append(log, Op("wait"))
            /\ exc' = TRUE
            /\ pc' = "finally"
            /\ UNCHANGED <<cards, ci>>
       ELSE /\ log' = log \o <<Op("wait"), Op("find_cards")>>
            /\ cards' = Document(site, doc).cards
            /\ ci' = 1
            /\ exc' = exc
            /\ pc' = "card"
    /\ UNCHANGED <<site, max_pages, session, driver, page, doc, results, ret,
                   table_vars, record>>

\* Lines 56-64: one iteration of the loop over the cards.
ProcessCard ==
    /\ pc = "card"
    /\ ci <= Len(cards)
    /\ log' = Append(log, Op("parse"))
    /\ results' = AfterCard(results, cards[ci])
    /\ ci' = ci + 1
    /\ UNCHANGED <<site, max_pages, pc, session, driver, page, doc, cards, exc, ret,
                   table_vars, record>>

\* Lines 66-79: after the last card, look for the next-page control (page
\* is never 0, so the test of line 66 never holds).
Paginate ==
    /\ pc = "card"
    /\ ci > Len(cards)
    /\ log' = Append(log, Op("find_next"))
    /\ pc' = IF Document(site, doc).next = "absent" THEN "finally" ELSE "click"
    /\ UNCHANGED <<site, max_pages, session, driver, page, doc, cards, ci, results,
                   exc, ret, table_vars, record>>

\* Lines 82-89, then line 48: scroll to the control and click it, sleep, and
\* go on with the next value of the loop variable, if there is one.
ClickNext ==
    /\ pc = "click"
    /\ IF Document(site, doc).next = "fail"
       THEN /\ log' = Append(log, Op("activate"))
            /\ pc' = OnClickFailure.pc
            /\ exc' = OnClickFailure.exc
            /\ UNCHANGED <<doc, page>>
       ELSE /\ log' = log \o <<Op("activate"), Op("sleep")>>
            /\ doc' = doc + 1
            /\ exc' = exc
            /\ IF HasNextPage(page, max_pages)
               THEN page' = page + 1 /\ pc' = "await"
               ELSE page' = page /\ pc' = "finally"
    /\ UNCHANGED <<site, max_pages, session, driver, cards, ci, results, ret,
                   table_vars, record>>

\* Lines 91-97: the finally clause, then the return or the propagation of
\* the exception.  What driver.quit() raises is swallowed.
Finally ==
    /\ pc = "finally"
    /\ IF Releases(exc)
       THEN session' = "quit" /\ log' = Append(log, Op("quit"))
       ELSE UNCHANGED <<session, log>>
    /\ IF exc THEN pc' = "raised" /\ ret' = ret
       ELSE pc' = "returned" /\ ret' = results
    /\ UNCHANGED <<site, max_pages, driver, page, doc, cards, ci, results,
                   exc, table_vars, record>>

NoTable == [cols |-> {}, rows |-> <<>>]
NoReport ==
    [total_rows |-> 0, valid_rows |-> 0, invalid_rows |-> 0,
     invalid_reasons |-> <<>>]

\* ------------------------------------------------- the processing stage

\* run_scraper.main, lines 139-148: the returned records go to the raw file.
SaveToCsv ==
    /\ pc = "returned"
    /\ raw' = save_to_csv(ret)
    /\ pc' = "saved"
    /\ UNCHANGED <<site, max_pages, session, driver, page, doc, cards, ci, results,
                   exc, ret, log, df, valid_df, report, fact, pandas,
                   record>>

\* transform.main, lines 55-59: read the raw file.
ReadRaw ==
    /\ pc = "saved"
    /\ \E version \in PandasVersions :
         /\ pandas' = version
         /\ df' = read_csv(raw, version)
    /\ pc' = "read"
    /\ UNCHANGED <<site, max_pages, session, driver, page, doc, cards, ci,
                   results, exc, ret, log, raw, valid_df, report, fact,
                   record>>

\* transform.main, line 63; what coerce_types raises ends main ("aborted").
CoerceTypes ==
    /\ pc = "read"
    /\ LET out == coerce_types(df, pandas)
       IN  IF out = Raise THEN df' = df /\ pc' = "aborted"
           ELSE df' = out /\ pc' = "coerced"
    /\ UNCHANGED <<site, max_pages, session, driver, page, doc, cards, ci,
                   results, exc, ret, log, raw, valid_df, report, fact,
                   pandas, record>>

\* transform.main, line 68.
Validate ==
    /\ pc = "coerced"
    /\ valid_df' = validate_products(df).valid_df
    /\ report' = validate_products(df).report
    /\ pc' = "validated"
    /\ UNCHANGED <<site, max_pages, session, driver, page, doc, cards, ci, results,
                   exc, ret, log, raw, df, fact, pandas,
                   record>>

\* transform.main, lines 76-83.
BuildFact ==
    /\ pc = "validated"
    /\ fact' = fact_table(valid_df)
    /\ pc' = "done"
    /\ UNCHANGED <<site, max_pages, session, driver, page, doc, cards, ci, results,
                   exc, ret, log, raw, df, valid_df, report, pandas,
                   record>>

\* --------------------------------------------------------- specifications

CrawlIdle ==
    /\ site = <<>>
    /\ max_pages = 0
    /\ session = "none"
    /\ driver = "unbound"
    /\ page = 0
    /\ doc = 0
    /\ ci = 1
    /\ results = <<>>
    /\ exc = FALSE
    /\ ret = <<>>
    /\ log = <<>>

TablesIdle ==
    /\ raw = <<>>
    /\ df = NoTable
    /\ valid_df = NoTable
    /\ report = NoReport
    /\ fact = NoTable
    /\ pandas = 0

\* The scraper run on a site, then the processing stage on its raw file.
Init ==
    /\ site \in Sites
    /\ max_pages \in 0..MaxPagesCap
    /\ pc = "build"
    /\ session = "none"
    /\ driver = "unbound"
    /\ page = 0
    /\ doc = 0
    /\ cards = <<>>
    /\ ci = 1
    /\ results = <<>>
    /\ exc = FALSE
    /\ ret = <<>>
    /\ log = <<>>
    /\ TablesIdle
    /\ record = None

Next ==
    \/ BuildDriver
    \/ OpenStart
    \/ AwaitCards
    \/ ProcessCard
    \/ Paginate
    \/ ClickNext
    \/ Finally
    \/ SaveToCsv
    \/ ReadRaw
    \/ CoerceTypes
    \/ Validate
    \/ BuildFact

Spec == Init /\ [][Next]_vars

\* parse_product_card on one card, with up to MaxFaults reads that raise.
ParseCard ==
    /\ pc = "parse"
    /\ record' = parse_product_card(cards[1])
    /\ pc' = "parsed"
    /\ UNCHANGED <<site, max_pages, session, driver, page, doc, cards, ci, results,
                   exc, ret, log, table_vars>>

InitParse ==
    /\ CrawlIdle
    /\ TablesIdle
    /\ cards \in {<<[c EXCEPT !.fail = f]>> : c \in BaseCards, f \in FaultSets}
    /\ pc = "parse"
    /\ record = None

NextParse == ParseCard

SpecParse == InitParse /\ [][NextParse]_vars

\* The rows of the batches given to validate_products.
Num(n, e) == [n |-> n, e |-> e]

GoodRow ==
    [idx |-> 0, snapshot_date |-> Str(<<"today">>),
     sku |-> Str(<<"A", "1">>), name |-> Str(<<"Saw">>),
     price_list |-> Num(10, 0), price_sale |-> Num(899, 2),
     rating |-> Num(45, 1), reviews_count |-> Num(12, 0),
     product_url |-> Str(ProductHref("saw"))]

BatchRows ==
    {GoodRow,
     [GoodRow EXCEPT !.price_list = Num(-5, 0), !.rating = Num(6, 0)],
     [GoodRow EXCEPT !.name = Str(<<>>)],
     [GoodRow EXCEPT !.name = NA, !.sku = Str(<<" ", "nbsp">>)],
     [GoodRow EXCEPT !.name = Str(<<"nan">>), !.sku = NA],
     [GoodRow EXCEPT !.price_sale = Num(0, 0), !.price_list = NA],
     [GoodRow EXCEPT !.reviews_count = Num(-1, 0), !.rating = Num(5, 0)],
     [GoodRow EXCEPT !.price_list = NA, !.price_sale = NA, !.rating = NA,
                     !.reviews_count = NA, !.product_url = NA],
     [GoodRow EXCEPT !.rating = Num(-1, 1), !.reviews_count = Num(0, 0)],
     [GoodRow EXCEPT !.price_list = Num(0, 0), !.rating = Num(0, 0)],
     [GoodRow EXCEPT !.rating = Num(51, 1), !.price_sale = Num(-1, 2)]}

\* The largest batch.
MaxBatch == 2

Reindexed(rows) == [i \in 1..Len(rows) |-> [rows[i] EXCEPT !.idx = i - 1]]

Batches ==
    {[cols |-> cs, rows |-> Reindexed(rows)] :
        cs \in {FactCols, FactCols \ {"rating", "price_list"}},
        rows \in UNION {[1..n -> BatchRows] : n \in 0..MaxBatch}}

\* validate_products on one batch.
InitValidate ==
    /\ CrawlIdle
    /\ cards = <<>>
    /\ raw = <<>>
    /\ df \in Batches
    /\ valid_df = NoTable
    /\ report = NoReport
    /\ fact = NoTable
    /\ pandas \in PandasVersions
    /\ pc = "coerced"
    /\ record = None

NextValidate == Validate

SpecValidate == InitValidate /\ [][NextValidate]_vars

\* ----------------------------------------------------------- observations

\* The run is over and returned a list / the crawl has ended either way.
Returned == pc = "returned"
Ended == pc \in {"returned", "raised"}

\* The positions of the log that hold the operation `name`.
LogAt(name) == {i \in 1..Len(log) : log[i].op = name}

\* The records of a card list when no read raises: those with a non-empty
\* name or a non-empty product URL, in order.
RECURSIVE AcceptedRecords(_)
AcceptedRecords(cs) ==
    IF cs = <<>> THEN <<>>
    ELSE LET r == parse_product_card(Head(cs))
         IN  (IF r.name # <<>> \/ r.product_url # <<>> THEN <<r>> ELSE <<>>)
             \o AcceptedRecords(Tail(cs))

\* A card list without the cards whose extraction raises.
Readable(cs) == SelectSeq(cs, LAMBDA c : parse_product_card(c) # Raise)

\* The records of a page's cards, a card whose extraction raises counting
\* as absent.
PageRecords(cs) == AcceptedRecords(Readable(cs))

\* The records of pages 1..k of the site, in page order.
RECURSIVE SiteRecords(_, _)
SiteRecords(st, k) ==
    IF k = 0 THEN <<>>
    ELSE SiteRecords(st, k - 1) \o PageRecords(st[k].cards)

\* ------------------------------------------------------------------ claims

\* The site C1 is about: three pages of cards, the next-page control present
\* and working on pages 1 and 2 and absent on page 3, a cap of at least 3.
ThreePageSite ==
    /\ Len(site) >= 3
    /\ \A d \in 1..3 : site[d].status = "ok"
    /\ site[1].next = "ok"
    /\ site[2].next = "ok"
    /\ site[3].next = "absent"
    /\ max_pages >= 3

\* C1: on the three-page site, once the start page is open the run does not
\* end in an error, and the list it returns is the concatenation, in page
\* order and in document order within a page, of the records of the cards of
\* pages 1, 2 and 3 whose record has a non-empty name or a non-empty product
\* URL, one record per such card and none from a later page.
C1_ThreePagesInOrder ==
    (ThreePageSite /\ doc >= 1) =>
        /\ pc # "raised"
        /\ Returned => ret = SiteRecords(site, 3)

\* C1 witness: a three-page run has returned records of all three pages, with
\* a card rejected by the filter on its way.
C1_Witness ==
    /\ ThreePageSite
    /\ Returned
    /\ max_pages > 3
    /\ \A d \in 1..3 : PageRecords(site[d].cards) # <<>>
    /\ \E d \in 1..3 : CardHusk \in {site[d].cards[i] : i \in 1..Len(site[d].cards)}
    /\ Len(ret) > 3

\* C2: the number of pages whose cards are enumerated never exceeds
\* max_pages, and a run with max_pages = 1 that returns has enumerated the
\* cards of exactly one page, whatever the next-page control of that page.
C2_PageCap ==
    /\ Cardinality(LogAt("find_cards")) <= max_pages
    /\ (max_pages = 1 /\ Returned) => Cardinality(LogAt("find_cards")) = 1

\* C2 witness: a run capped at one page has returned, on a site whose first
\* page has a working next-page control and whose second page has cards.
C2_Witness ==
    /\ max_pages = 1
    /\ Returned
    /\ site[1].next = "ok"
    /\ Len(site) >= 2
    /\ site[2].status = "ok"
    /\ Cardinality(LogAt("find_cards")) = 1

\* C3: once scrape_listing has acquired the session (line 40 has given it
\* the driver), a crawl that has ended, however it ended, has released the
\* session, driver.quit was called once, and it is the last browser
\* operation.
C3_SessionReleased ==
    /\ (Ended /\ driver = "bound") =>
           /\ session = "quit"
           /\ LogAt("quit") = {Len(log)}
    /\ \A i \in LogAt("quit") : i = Len(log)
    /\ session = "quit" <=> LogAt("quit") # {}

\* C3 witness: a crawl that ended in an error after extracting a page has
\* released the session.
C3_Witness ==
    /\ pc = "raised"
    /\ session = "quit"
    /\ results # <<>>
    /\ log[Len(log)].op = "quit"

\* The positions of the log where the wait for a card timed out.
TimedOutAt ==
    {i \in LogAt("wait") : Document(site, log[i].doc).status = "timeout"}

\* C4: when no card appears within the wait on some page, the run ends in an
\* error: no list is returned, and after the wait nothing is done but the
\* release of the session (no card of that page is enumerated or extracted,
\* the next-page control is neither looked for nor clicked).
C4_TimeoutIsFatal ==
    \A i \in TimedOutAt :
        /\ pc \in {"finally", "raised"}
        /\ exc
        /\ ret = <<>>
        /\ \A j \in (i + 1)..Len(log) : log[j].op = "quit"

\* C4 witness: the wait timed out on a later page, with records gathered
\* from the earlier pages, and the run has ended.
C4_Witness ==
    /\ pc = "raised"
    /\ results # <<>>
    /\ \E i \in TimedOutAt : log[i].doc = 2

\* C5: a card whose extraction raises is skipped and nothing else changes:
\* the step that handles a card leaves results as it was when the extraction
\* raises, and appends the card's record when it does not raise and the
\* record has a name or a product URL; either way the loop goes on with the
\* next card of the same page (or, after the last one, with the pagination
\* step), and no exception propagates.
C5_CardStep ==
    (pc = "card" /\ ci <= Len(cards)) =>
        LET r == parse_product_card(cards[ci])
        IN  /\ results' = IF r = Raise THEN results
                          ELSE IF r.name # <<>> \/ r.product_url # <<>>
                          THEN results \o <<r>>
                          ELSE results
            /\ pc' = "card"
            /\ ci' = ci + 1
            /\ cards' = cards
            /\ page' = page
            /\ doc' = doc
            /\ ~exc'

C5_CardFaultSkipsCard == [][C5_CardStep]_vars

\* C5 witness: the loop over the cards of a page has ended, a card in the
\* middle of the page raised, and the cards before and after it gave records.
C5_Witness ==
    /\ pc = "click"
    /\ page = 2
    /\ cards = <<CardFull, CardStale, CardNameOnly>>
    /\ Len(results) >= 3
    /\ results[Len(results)].name = <<"Drill", " ", "Kit">>
    /\ results[Len(results) - 1].name = <<"Cordless", " ", "Saw">>

\* The positions of the log where the scroll or the click failed.
ClickFailedAt ==
    {i \in LogAt("activate") : Document(site, log[i].doc).next = "fail"}

\* C6: a failed scroll or click ends the crawl as an absent control does:
\* the click is not retried, no further page is processed, no error is
\* raised, and the run returns the records of the pages up to and including
\* the current one.
C6_FailedClickEndsCrawl ==
    \A i \in ClickFailedAt :
        /\ \A j \in (i + 1)..Len(log) : log[j].op = "quit"
        /\ ~exc
        /\ pc # "raised"
        /\ Returned => ret = SiteRecords(site, log[i].doc)

\* C6 witness: the click failed on the second page and the run returned the
\* records of both pages.
C6_Witness ==
    /\ Returned
    /\ \E i \in ClickFailedAt : log[i].doc = 2
    /\ max_pages > 2
    /\ Len(site) > 2
    /\ site[3].status = "ok"
    /\ Len(ret) > 2

\* Whether a row of a batch violates a rule, as the rules are stated: a
\* field is present when the batch has its column and the row a value in it.
Present(d, r, col) == col \in d.cols /\ r[col] # NA

Violates(d, r, reason) ==
    CASE reason = "invalid_name" ->
            ~Present(d, r, "name") \/ Strip(r.name.s) = <<>>
      [] reason = "invalid_sku" ->
            ~Present(d, r, "sku") \/ Strip(r.sku.s) = <<>>
      [] reason = "invalid_price_list" ->
            Present(d, r, "price_list") /\ r.price_list.n <= 0
      [] reason = "invalid_price_sale" ->
            Present(d, r, "price_sale") /\ r.price_sale.n <= 0
      [] reason = "invalid_rating" ->
            Present(d, r, "rating")
            /\ (r.rating.n < 0 \/ r.rating.n > 5 * Pow10(r.rating.e))
      [] reason = "invalid_reviews_count" ->
            Present(d, r, "reviews_count") /\ r.reviews_count.n < 0

Clean(d, r) == \A reason \in Reasons : ~Violates(d, r, reason)

\* C7: for every batch, the valid set is the rows that violate none of the
\* six rules, each reason counter is the number of rows violating its rule,
\* invalid_rows counts each row violating some rule once, and valid_rows +
\* invalid_rows = total_rows.
C7_ValidatorPartition ==
    pc = "validated" =>
        /\ valid_df.rows = SelectSeq(df.rows, LAMBDA r : Clean(df, r))
        /\ \A reason \in Reasons :
               ReasonCount(report, reason) =
                   Cardinality({i \in 1..Len(df.rows) :
                                   Violates(df, df.rows[i], reason)})
        /\ report.invalid_rows =
               Cardinality({i \in 1..Len(df.rows) : ~Clean(df, df.rows[i])})
        /\ report.total_rows = Len(df.rows)
        /\ report.valid_rows = Len(valid_df.rows)
        /\ report.valid_rows + report.invalid_rows = report.total_rows

\* C7 witness: a batch with a valid row and the row price_list = -5,
\* rating = 6.0 has been validated: both counters are 1 and the row is
\* counted invalid once.
C7_Witness ==
    /\ pc = "validated"
    /\ df.cols = FactCols
    /\ Len(df.rows) = 2
    /\ df.rows[1].price_list = Num(-5, 0)
    /\ df.rows[1].rating = Num(6, 0)
    /\ ReasonCount(report, "invalid_price_list") = 1
    /\ ReasonCount(report, "invalid_rating") = 1
    /\ report.invalid_rows = 1
    /\ report.valid_rows = 1

\* The label of C8: the rating first, the review count later.
RatingThenCount ==
    <<"4", ".", "6", " ", "out", " ", "of", " ", "5", " ", "stars", ",", " ",
      "8", "1", "2", " ", "reviews">>

\* C8: a card without primary rating and review count whose fallback label
\* reads "4.6 out of 5 stars, 812 reviews" gives rating 4.6 and review count
\* 812.
C8_LabelGivesBoth ==
    (/\ pc = "parsed"
     /\ cards[1].fail = {}
     /\ cards[1].rating = NoEl
     /\ cards[1].reviews = NoEl
     /\ cards[1].bv = [label |-> RatingThenCount]) =>
        /\ record.rating = Num(46, 1)
        /\ record.reviews_count = Num(812, 0)

\* The rows of the returned list that have an empty name.
Nameless == {i \in 1..Len(ret) : ret[i].name = <<>>}

Labels(t) == {t.rows[i].idx : i \in 1..Len(t.rows)}

\* C9: a record with an empty name and a product URL passes the acceptance
\* filter and is then rejected by the processing stage: invalid_name counts
\* one for each such record, and none of them is in the valid set or in the
\* fact table.
C9_NamelessRejected ==
    pc = "done" =>
        /\ \A i \in Nameless : ret[i].product_url # <<>>
        /\ ReasonCount(report, "invalid_name") = Cardinality(Nameless)
        /\ \A i \in Nameless : (i - 1) \notin Labels(valid_df)
        /\ \A i \in Nameless : (i - 1) \notin Labels(fact)

\* The fields of the record a failing read bears on.
Affected(read) ==
    CASE read \in {"find_name", "script_name", "text_name"} -> {"name"}
      [] read \in {"find_sku", "text_sku"} -> {"sku"}
      [] read = "attr_sale" -> {"price_sale"}
      [] read = "attr_list" -> {"price_list", "price_sale"}
      [] read \in {"find_rating", "text_rating"} -> {"rating"}
      [] read \in {"find_reviews", "text_reviews"} -> {"reviews_count"}
      [] read \in {"find_bv", "attr_label"} -> {"rating", "reviews_count"}
      [] read \in {"find_links", "attr_href"} -> {"product_url"}

RecordFields ==
    {"sku", "name", "price_list", "price_sale", "rating", "reviews_count",
     "product_url"}

\* C10: parse_product_card never raises: whatever read fails, it returns a
\* record, whose fields the failing reads do not bear on are those of the
\* card read without failure.
C10_NeverRaises ==
    pc = "parsed" =>
        /\ record # Raise
        /\ \A f \in RecordFields \ UNION {Affected(x) : x \in cards[1].fail} :
               record[f] = parse_product_card([cards[1] EXCEPT !.fail = {}])[f]

\* The sale-price text parse_product_card works on: the card's attribute,
\* stripped.
SaleText(card) == Strip(card.sale)

\* C11: in every record parse_product_card returns, price_sale equals
\* price_list when the sale-price text is empty or parses to none; hence no
\* record has price_sale absent while price_list is present.
C11_SaleFallsBackToList ==
    (pc = "parsed" /\ record # Raise) =>
        /\ (SaleText(cards[1]) = <<>> \/ parse_price(SaleText(cards[1])) = None)
              => record.price_sale = record.price_list
        /\ record.price_sale = None => record.price_list = None

\* C11 witness: a card with an empty sale-price text and the list-price text
\* "$10.00" has been parsed: both prices are 10.
C11_Witness ==
    /\ pc = "parsed"
    /\ record # Raise
    /\ cards[1].sale = <<>>
    /\ cards[1].list = <<"$", "1", "0", ".", "0", "0">>
    /\ record.price_sale = [n |-> 10, e |-> 0]
    /\ record.price_list = [n |-> 10, e |-> 0]

\* C11 second witness state: a sale-price text that is not empty and parses
\* to none, with a list price.
C11_UnparsableSale ==
    /\ pc = "parsed"
    /\ record # Raise
    /\ SaleText(cards[1]) # <<>>
    /\ parse_price(SaleText(cards[1])) = None
    /\ record.price_sale = [n |-> 35, e |-> 0]

\* The positions of the log that hold a pagination operation: the lookup of
\* the next-page control, its activation (scroll and click), the inter-page
\* delay.
PaginationOps == LogAt("find_next") \cup LogAt("activate") \cup LogAt("sleep")

\* C12: once the cards of page max_pages are extracted the loop halts: no
\* pagination operation is performed on page max_pages, so that after its
\* cards only the release of the session follows, and the next-page control
\* is activated at most max_pages - 1 times.
C12_CapHaltsBeforePagination ==
    max_pages >= 1 =>
        /\ \A i \in PaginationOps : log[i].doc < max_pages
        /\ Cardinality(LogAt("activate")) <= max_pages - 1
====
